---- MODULE Spec2Model ----
(***************************************************************************)
(* Model of asset_manager.py: synchronisation of the Kometa collections     *)
(* file with the Trakt lists of a user, creation of the four overlay       *)
(* files, and provisioning of the poster and the font.                     *)
(*                                                                         *)
(* Python strings that the code inspects (list names, category names,      *)
(* labels) are tuples of one-character strings, so that str.lower,         *)
(* str.split and str.replace are computed, not assumed.                    *)
(***************************************************************************)
EXTENDS Integers, Sequences, FiniteSets, TLC

VARIABLES
    collections_file,   \* <collections_dir>/anime_episode_type.yml
    overlay_files,      \* the four files under yaml_output_dir
    poster_file,        \* assets/Next Airing/poster.jpg exists
    font_file,          \* fonts/Juventus-Fans-Bold.ttf exists
    font_path,          \* services.tv_status_tracker.font_path of the config
    op,                 \* the operation that ran last
    force_update,       \* its force_update argument
    response,           \* what requests.get / response.json() gave it
    collections_data,   \* its classification of the remote lists
    old_file,           \* the collections file as it found it
    wrote,              \* it reached open(collections_file, 'w')
    ret                 \* what it returned: "true", "false", or "raised"

vars == <<collections_file, overlay_files, poster_file, font_file, font_path,
          op, force_update, response, collections_data, old_file, wrote, ret>>

-----------------------------------------------------------------------------
(* Bounds of the model *)

\* longest remote response (number of lists) the synchronisation is run on
MaxLists == 2

\* number of overlay files (the last ones of overlay_configs) whose write may fail
MaxOverlayFail == 1

-----------------------------------------------------------------------------
(* Python string operations *)

UpperCase == <<"A", "B", "C", "D", "E", "F", "G", "H", "I", "J", "K", "L", "M",
               "N", "O", "P", "Q", "R", "S", "T", "U", "V", "W", "X", "Y", "Z">>
LowerCase == <<"a", "b", "c", "d", "e", "f", "g", "h", "i", "j", "k", "l", "m",
               "n", "o", "p", "q", "r", "s", "t", "u", "v", "w", "x", "y", "z">>

\* str.lower() on one character
lower_char(c) ==
    IF \E i \in 1..Len(UpperCase) : UpperCase[i] = c
    THEN LowerCase[CHOOSE i \in 1..Len(UpperCase) : UpperCase[i] = c]
    ELSE c

\* str.lower()
lower(s) == [i \in 1..Len(s) |-> lower_char(s[i])]

\* c in s
contains(s, c) == \E i \in 1..Len(s) : s[i] = c

\* s.split(c, 1) for an s that contains c: the text before the first c and
\* all the text after it
split_first(s, c) ==
    LET i == CHOOSE k \in 1..Len(s) : s[k] = c /\ \A j \in 1..(k - 1) : s[j] # c
    IN  <<SubSeq(s, 1, i - 1), SubSeq(s, i + 1, Len(s))>>

\* s[i:].startswith(pat), i counted from 1
starts_at(s, i, pat) ==
    /\ i + Len(pat) - 1 <= Len(s)
    /\ \A j \in 1..Len(pat) : s[i + j - 1] = pat[j]

RECURSIVE replace_from(_, _, _, _)
replace_from(s, i, pat, rep) ==
    IF i > Len(s) THEN <<>>
    ELSE IF starts_at(s, i, pat)
         THEN rep \o replace_from(s, i + Len(pat), pat, rep)
         ELSE <<s[i]>> \o replace_from(s, i + 1, pat, rep)

\* s.replace(pat, rep), pat not empty: leftmost non-overlapping occurrences
replace(s, pat, rep) == replace_from(s, 1, pat, rep)

\* set(list)
set_of(list) == {list[i] : i \in 1..Len(list)}

-----------------------------------------------------------------------------
(* The four collections and the classifier *)

\* keys of collections_data, in insertion order
CollectionNames == <<"Fillers", "Manga Canon", "Anime Canon", "Mixed Canon/Filler">>

Collections == set_of(CollectionNames)

\* the characters of each collection name
NameChars ==
    [c \in Collections |->
        CASE c = "Fillers"     -> <<"F", "i", "l", "l", "e", "r", "s">>
          [] c = "Manga Canon" -> <<"M", "a", "n", "g", "a", " ", "C", "a", "n", "o", "n">>
          [] c = "Anime Canon" -> <<"A", "n", "i", "m", "e", " ", "C", "a", "n", "o", "n">>
          [] OTHER             -> <<"M", "i", "x", "e", "d", " ", "C", "a", "n", "o", "n",
                                    "/", "F", "i", "l", "l", "e", "r">>]

\* the literals the episode type is compared with
filler             == <<"f", "i", "l", "l", "e", "r">>
manga_canon_hyphen == <<"m", "a", "n", "g", "a", "-", "c", "a", "n", "o", "n">>
manga_canon_space  == <<"m", "a", "n", "g", "a", " ", "c", "a", "n", "o", "n">>
anime_canon_hyphen == <<"a", "n", "i", "m", "e", "-", "c", "a", "n", "o", "n">>
anime_canon_space  == <<"a", "n", "i", "m", "e", " ", "c", "a", "n", "o", "n">>
mixed_hyphen       == <<"m", "i", "x", "e", "d", "-", "c", "a", "n", "o", "n", "-",
                        "f", "i", "l", "l", "e", "r">>
mixed_slash        == <<"m", "i", "x", "e", "d", " ", "c", "a", "n", "o", "n", "/",
                        "f", "i", "l", "l", "e", "r">>

NoCollection == "none"

\* a plausible slip: the comparison forgets .lower()
episode_collection_case_sensitive(episode_type) ==
    IF episode_type = filler THEN "Fillers"
    ELSE IF episode_type \in {manga_canon_hyphen, manga_canon_space} THEN "Manga Canon"
    ELSE IF episode_type \in {anime_canon_hyphen, anime_canon_space} THEN "Anime Canon"
    ELSE IF episode_type \in {mixed_hyphen, mixed_slash} THEN "Mixed Canon/Filler"
    ELSE NoCollection

\* the if/elif chain on episode_type.lower(): the collection a list goes to
episode_collection(episode_type) ==
    IF lower(episode_type) = filler THEN "Fillers"
    ELSE IF lower(episode_type) = manga_canon_hyphen THEN "Manga Canon"
    ELSE IF lower(episode_type) = manga_canon_space THEN "Manga Canon"
    ELSE IF lower(episode_type) = anime_canon_hyphen THEN "Anime Canon"
    ELSE IF lower(episode_type) = anime_canon_space THEN "Anime Canon"
    ELSE IF lower(episode_type) = mixed_hyphen THEN "Mixed Canon/Filler"
    ELSE IF lower(episode_type) = mixed_slash THEN "Mixed Canon/Filler"
    ELSE NoCollection

trakt_username == "alice"

\* f"https://trakt.tv/users/{trakt_username}/lists/{list_slug}"
list_url(username, list_slug) == [user |-> username, slug |-> list_slug]

\* A decoded list record. shape: "dict" or "other" (not a mapping).
\* name_kind: "str", "missing" (no 'name' key) or "null".
\* ids_kind: "slug" (ids.slug present), "noslug" (ids without slug),
\* "missing" (no 'ids' key) or "null".
RemoteList(name_kind, name, ids_kind, slug) ==
    [shape |-> "dict", name_kind |-> name_kind, name |-> name,
     ids_kind |-> ids_kind, slug |-> slug]

NotADict == [shape |-> "other", name_kind |-> "missing", name |-> <<>>,
             ids_kind |-> "missing", slug |-> <<>>]

\* trakt_list.get('name', '')
name_of(trakt_list) == IF trakt_list.name_kind = "missing" THEN <<>> ELSE trakt_list.name

\* trakt_list.get('ids', {}).get('slug', name)
slug_of(trakt_list) ==
    IF trakt_list.ids_kind = "slug" THEN trakt_list.slug ELSE name_of(trakt_list)

EmptyData == [c \in Collections |-> <<>>]

\* The record does not have the shape the loop body relies on: .get on a
\* value that is no mapping, '_' in None, or .get on ids that is null.
raises_on(trakt_list) ==
    \/ trakt_list.shape # "dict"
    \/ trakt_list.name_kind = "null"
    \/ /\ contains(name_of(trakt_list), "_")
       /\ trakt_list.ids_kind = "null"

\* one pass of the loop body
classify_one(data, trakt_list) ==
    IF ~contains(name_of(trakt_list), "_") THEN data
    ELSE LET parts == split_first(name_of(trakt_list), "_")
             c     == episode_collection(parts[2])
         IN  IF c = NoCollection THEN data
             ELSE [data EXCEPT ![c] =
                      Append(@, list_url(trakt_username, slug_of(trakt_list)))]

RECURSIVE classify_from(_, _, _)
classify_from(trakt_lists, i, data) ==
    IF i > Len(trakt_lists) THEN [raised |-> FALSE, data |-> data]
    ELSE IF raises_on(trakt_lists[i]) THEN [raised |-> TRUE, data |-> data]
    ELSE classify_from(trakt_lists, i + 1, classify_one(data, trakt_lists[i]))

\* the loop over trakt_lists that fills collections_data
classify(trakt_lists) == classify_from(trakt_lists, 1, EmptyData)

-----------------------------------------------------------------------------
(* The collections file *)

\* A collection entry of the file: a mapping of setting keys to values, or
\* null (a key with nothing under it).
DictEntry(fields) == [shape |-> "dict", fields |-> fields]
NullEntry == [shape |-> "null", fields |-> <<>>]

\* The file. kind: "absent"; "unreadable" (open or yaml.safe_load raises);
\* "empty" (safe_load gives None); "nullcoll" (the mapping's 'collections'
\* is null); "map" ('collections' maps names, in the order given, to entries).
FileOf(kind, order, entries) == [kind |-> kind, order |-> order, entries |-> entries]
Absent          == FileOf("absent", <<>>, <<>>)
Unreadable      == FileOf("unreadable", <<>>, <<>>)
EmptyFile       == FileOf("empty", <<>>, <<>>)
NullCollections == FileOf("nullcoll", <<>>, <<>>)
MapFile(order, entries) == FileOf("map", order, entries)

\* existing_collections after the read: {'collections': {}} when there is no
\* file, when reading raises and when the document is empty
existing_collections(file) ==
    IF file.kind \in {"absent", "unreadable", "empty"} THEN MapFile(<<>>, <<>>) ELSE file

\* a plausible slip: the lists are looked up under a key the file never has
existing_lists_wrong_key(entry) ==
    IF "trakt_lists" \in DOMAIN entry.fields THEN set_of(entry.fields["trakt_lists"]) ELSE {}

\* set(collection_data.get('trakt_list', []))
existing_lists(entry) ==
    IF "trakt_list" \in DOMAIN entry.fields THEN set_of(entry.fields["trakt_list"]) ELSE {}

\* The loop over existing_collections.get('collections', {}).items() from its
\* i-th item on: "changed" at the first of the four collections whose set of
\* URLs differs, "raise" when .items() or .get meets null first, else "same".
RECURSIVE compare_from(_, _, _)
compare_from(existing, data, i) ==
    IF existing.kind = "nullcoll" THEN "raise"
    ELSE IF i > Len(existing.order) THEN "same"
    ELSE LET collection_name == existing.order[i]
             collection_data == existing.entries[collection_name]
         IN  IF collection_data.shape = "null" THEN "raise"
             ELSE IF /\ collection_name \in Collections
                     /\ existing_lists(collection_data) # set_of(data[collection_name])
                  THEN "changed"
             ELSE compare_from(existing, data, i + 1)

\* changes_detected after the comparison
changes_detected(force, existing, data) ==
    IF force THEN "changed" ELSE compare_from(existing, data, 1)

\* collection_name.replace(' Canon/Filler', '').replace(' Canon', 'Canon')
item_label(collection_name) ==
    replace(replace(NameChars[collection_name],
                    <<" ", "C", "a", "n", "o", "n", "/", "F", "i", "l", "l", "e", "r">>, <<>>),
            <<" ", "C", "a", "n", "o", "n">>, <<"C", "a", "n", "o", "n">>)

\* the settings of a collection the old file does not have
default_settings(collection_name, list_urls) ==
    ( "trakt_list" :> list_urls @@ "sync_mode" :> "sync"
      @@ "item_label" :> item_label(collection_name)
      @@ "builder_level" :> "episode" @@ "cache_builders" :> 6 )

\* a plausible slip: the defaults are laid under the old settings
preserved_settings_with_defaults(fields, collection_name, list_urls) ==
    [k \in DOMAIN fields \cup DOMAIN default_settings(collection_name, list_urls) |->
        IF k = "trakt_list" THEN list_urls
        ELSE IF k \in DOMAIN fields THEN fields[k]
        ELSE default_settings(collection_name, list_urls)[k]]

\* existing entry .copy() with only trakt_list set
preserved_settings(fields, collection_name, list_urls) ==
    [k \in DOMAIN fields \cup {"trakt_list"} |->
        IF k = "trakt_list" THEN list_urls ELSE fields[k]]

\* collection_settings of one of the four collections
collection_settings(existing, collection_name, list_urls) ==
    IF collection_name \in DOMAIN existing.entries
    THEN DictEntry(preserved_settings(existing.entries[collection_name].fields,
                                      collection_name, list_urls))
    ELSE DictEntry(default_settings(collection_name, list_urls))

\* Building new_collections raises when 'collections' is null (in None) or
\* the old entry of one of the four is null (None.copy()).
merge_raises(existing) ==
    \/ existing.kind = "nullcoll"
    \/ \E c \in Collections :
          c \in DOMAIN existing.entries /\ existing.entries[c].shape = "null"

\* new_collections: the four collections, in the order of collections_data
new_collections(existing, data) ==
    MapFile(CollectionNames,
            [c \in Collections |-> collection_settings(existing, c, data[c])])

-----------------------------------------------------------------------------
(* The overlay files *)

OverlayNames == <<"fillers.yml", "manga_canon.yml", "anime_canon.yml", "mixed.yml">>

Overlays == set_of(OverlayNames)

\* overlay_configs
overlay_configs ==
    [f \in Overlays |->
        CASE f = "fillers.yml" ->
               [overlay_name |-> "filler_overlay",
                name  |-> <<"F", "i", "l", "l", "e", "r">>,
                label |-> <<"F", "i", "l", "l", "e", "r">>]
          [] f = "manga_canon.yml" ->
               [overlay_name |-> "manga_overlay",
                name  |-> <<"M", "a", "n", "g", "a", " ", "C", "a", "n", "o", "n">>,
                label |-> <<"M", "a", "n", "g", "a", "C", "a", "n", "o", "n">>]
          [] f = "anime_canon.yml" ->
               [overlay_name |-> "anime_overlay",
                name  |-> <<"A", "n", "i", "m", "e", " ", "C", "a", "n", "o", "n">>,
                label |-> <<"A", "n", "i", "m", "e", "C", "a", "n", "o", "n">>]
          [] OTHER ->
               [overlay_name |-> "mixed_overlay",
                name  |-> <<"M", "i", "x", "e", "d", " ", "C", "a", "n", "o", "n",
                            "/", "F", "i", "l", "l", "e", "r">>,
                label |-> <<"M", "i", "x", "e", "d">>]]

\* overlay_settings.get(key, default)
setting(overlay_settings, key, default) ==
    IF key \in DOMAIN overlay_settings THEN overlay_settings[key] ELSE default

\* An overlay file. kind: "absent"; "foreign" (content this module did not
\* write); "empty" (opened for writing, nothing dumped); "yaml" (overlay_content).
OverlayOf(kind, overlay_name, overlay, episode_label) ==
    [kind |-> kind, overlay_name |-> overlay_name, overlay |-> overlay,
     episode_label |-> episode_label]
NoOverlay      == OverlayOf("absent", "", <<>>, <<>>)
ForeignOverlay == OverlayOf("foreign", "", <<>>, <<>>)
EmptyOverlay   == OverlayOf("empty", "", <<>>, <<>>)

\* overlay_content of one file
overlay_content(filename, overlay_settings) ==
    OverlayOf("yaml", overlay_configs[filename].overlay_name,
        ( "name" :> (<<"t", "e", "x", "t", "(">> \o overlay_configs[filename].name \o <<")">>)
          @@ "horizontal_offset" :> setting(overlay_settings, "horizontal_offset", 0)
          @@ "horizontal_align" :> setting(overlay_settings, "horizontal_align", "center")
          @@ "vertical_offset" :> setting(overlay_settings, "vertical_offset", 0)
          @@ "vertical_align" :> setting(overlay_settings, "vertical_align", "top")
          @@ "font_size" :> setting(overlay_settings, "font_size", 75)
          @@ "font" :> "config/fonts/Juventus-Fans-Bold.ttf"
          @@ "back_width" :> setting(overlay_settings, "back_width", 1920)
          @@ "back_height" :> setting(overlay_settings, "back_height", 125)
          @@ "back_color" :> setting(overlay_settings, "back_color", "#262626") ),
        overlay_configs[filename].label)

\* os.path.exists(overlay_file)
exists(overlay) == overlay.kind # "absent"

\* a plausible slip: the existence test is dropped
write_overlay_always(old, filename, overlay_settings, failure) ==
    IF failure = "none" THEN overlay_content(filename, overlay_settings)
    ELSE IF failure = "open" THEN old
    ELSE EmptyOverlay

\* One pass of the loop over overlay_configs. failure: "none", "open" (open
\* raises, no file appears) or "dump" (the file is created, the dump raises).
write_overlay(old, filename, overlay_settings, failure) ==
    IF exists(old) THEN old
    ELSE IF failure = "none" THEN overlay_content(filename, overlay_settings)
    ELSE IF failure = "open" THEN NoOverlay
    ELSE EmptyOverlay

\* the files whose write may fail
FailingOverlays ==
    {OverlayNames[i] : i \in {j \in 1..Len(OverlayNames) : j > Len(OverlayNames) - MaxOverlayFail}}

\* what can go wrong with the writes of one call: which files fail, and how
OverlayFailures ==
    {fl \in [Overlays -> {"none", "open", "dump"}] :
        \A f \in Overlays : fl[f] # "none" => f \in FailingOverlays}

\* every write succeeds
NoFailures == {[f \in Overlays |-> "none"]}

\* create_anime_overlay_files(config): the possible results, [files, ret],
\* over the write failures in Fails. ensure_directory(yaml_output_dir) may
\* fail; each missing file is written, a failed write only clears success.
create_anime_overlay_files(files, config, Fails) ==
    {[files |-> files, ret |-> "false"]}
    \cup
    {[files |-> [f \in Overlays |-> write_overlay(files[f], f, config.overlay, fl[f])],
      ret   |-> IF \E f \in Overlays : ~exists(files[f]) /\ fl[f] # "none"
                THEN "false" ELSE "true"] : fl \in Fails}

-----------------------------------------------------------------------------
(* sync_anime_episode_collections *)

\* What the request gave. status: "transport" (requests.get raises),
\* "http" (status_code is not 200), "undecodable" (response.json() raises),
\* "notalist" (the body is no list: iterating it, or .get on its items,
\* raises), "ok" (lists is the decoded body), "none" (no request was made).
ResponseOf(status, lists) == [status |-> status, lists |-> lists]
NoResponse == ResponseOf("none", <<>>)

\* The configuration. trakt: "alice" (trakt.username is set), "missing" (no
\* username) or "null" (the 'trakt' key holds null). overlay: the mapping
\* services.anime_episode_type.overlay. enabled: services.anime_episode_type
\* .enabled. tracker: services.tv_status_tracker is present.
ConfigOf(trakt, overlay, enabled, tracker) ==
    [trakt |-> trakt, overlay |-> overlay, enabled |-> enabled, tracker |-> tracker]

\* the result of one call: what it returned and what it left behind
ResultOf(r, file, files, resp, data, w) ==
    [ret |-> r, file |-> file, files |-> files, response |-> resp,
     data |-> data, wrote |-> w]

\* From the write of new_collections on: open may raise (the old file
\* stays), the dump may raise (an empty file is left), or the file is written
\* and create_anime_overlay_files runs, its result ignored.
write_collections(file, files, config, resp, data, new_file, Fails) ==
    {ResultOf("false", file, files, resp, data, TRUE),
     ResultOf("false", EmptyFile, files, resp, data, TRUE)}
    \cup
    {ResultOf("true", new_file, o.files, resp, data, TRUE) :
        o \in create_anime_overlay_files(files, config, Fails)}

\* From the read of the existing file on.
merge_and_write(file, files, config, force, resp, data, Fails) ==
    LET existing == existing_collections(file)
        changed  == changes_detected(force, existing, data)
    IN  IF changed = "raise"
        THEN {ResultOf("raised", file, files, resp, data, FALSE)}
        ELSE IF changed = "same"
        THEN {ResultOf("true", file, files, resp, data, FALSE)}
        ELSE IF merge_raises(existing)
        THEN {ResultOf("raised", file, files, resp, data, FALSE)}
        ELSE write_collections(file, files, config, resp, data,
                               new_collections(existing, data), Fails)

\* From requests.get on.
fetch_and_sync(file, files, config, force, resp, Fails) ==
    IF resp.status \in {"transport", "undecodable", "notalist"}
    THEN {ResultOf("raised", file, files, resp, EmptyData, FALSE)}
    ELSE IF resp.status = "http"
    THEN {ResultOf("false", file, files, resp, EmptyData, FALSE)}
    ELSE LET classified == classify(resp.lists)
         IN  IF classified.raised
             THEN {ResultOf("raised", file, files, resp, classified.data, FALSE)}
             ELSE merge_and_write(file, files, config, force, resp, classified.data, Fails)

\* sync_anime_episode_collections(config, force_update): every result the
\* call can have, over the responses in Resps, the overlay write failures in
\* Fails and what the file system and the credential do. ensure_directory or ensure_trakt_auth failing and a
\* missing username return False; config['trakt'] being null raises.
sync_anime_episode_collections(file, files, config, force, Resps, Fails) ==
    {ResultOf("false", file, files, NoResponse, EmptyData, FALSE)}
    \cup
    (IF config.trakt = "null"
     THEN {ResultOf("raised", file, files, NoResponse, EmptyData, FALSE)}
     ELSE IF config.trakt = "missing" THEN {}
     ELSE UNION {fetch_and_sync(file, files, config, force, resp, Fails) : resp \in Resps})

-----------------------------------------------------------------------------
(* Inputs *)

\* URL of a list that was deleted on Trakt since the file was written
StaleUrl == list_url(trakt_username, <<"o", "l", "d">>)

NFiller == RemoteList("str", <<"N", "_", "F", "i", "l", "l", "e", "r">>, "slug", <<"n", "f">>)
BManga  == RemoteList("str", <<"B", "_", "m", "a", "n", "g", "a", "-", "c", "a", "n", "o", "n">>,
                      "missing", <<>>)
NullName == RemoteList("null", <<>>, "missing", <<>>)

\* list records the synchronisation is run on
SyncLists == {NFiller, BManga}

SeqsUpTo(S, n) == UNION {[1..k -> S] : k \in 0..n}

FailedResponses ==
    {ResponseOf(st, <<>>) : st \in {"transport", "http", "undecodable", "notalist"}}

\* a body whose record has no usable name
MisshapenResponse == ResponseOf("ok", <<NullName>>)

Responses ==
    FailedResponses \cup {MisshapenResponse}
    \cup {ResponseOf("ok", l) : l \in SeqsUpTo(SyncLists, MaxLists)}

\* the responses the overlay files are exercised with
FewResponses == {ResponseOf("http", <<>>), ResponseOf("ok", <<NFiller>>)}

CustomOverlay == ("font_size" :> 60 @@ "vertical_align" :> "bottom")

\* configurations with the default overlay settings
SyncConfigs ==
    {ConfigOf(t, <<>>, TRUE, TRUE) : t \in {"alice", "missing", "null"}}

\* configurations whose overlay settings and services vary
AllConfigs ==
    {ConfigOf("alice", <<>>, TRUE, TRUE), ConfigOf("alice", CustomOverlay, TRUE, FALSE),
     ConfigOf("missing", CustomOverlay, FALSE, TRUE)}

\* collections files a user may have left on disk
UserFiles ==
    { Absent, Unreadable, EmptyFile, NullCollections,
      MapFile(<<"Other">>, "Other" :> NullEntry),
      MapFile(<<"Fillers">>,
              "Fillers" :> DictEntry("trakt_list" :> <<StaleUrl>> @@ "sync_mode" :> "append"
                                     @@ "note" :> "mine")),
      MapFile(<<"Fillers", "Other", "Manga Canon">>,
              "Fillers" :> DictEntry("trakt_list" :> <<StaleUrl>>)
              @@ "Other" :> DictEntry("trakt_list" :> <<StaleUrl>> @@ "sync_mode" :> "sync")
              @@ "Manga Canon" :> NullEntry),
      MapFile(<<"Manga Canon", "Fillers">>,
              "Manga Canon" :> DictEntry("trakt_list" :> <<list_url(trakt_username, BManga.name)>>
                                         @@ "item_label" :> <<"M", "C">>
                                         @@ "cache_builders" :> 12)
              @@ "Fillers" :> DictEntry("sync_mode" :> "append")) }

-----------------------------------------------------------------------------
(* Operations *)

Finish(name, force, r) ==
    /\ op' = name
    /\ force_update' = force
    /\ response' = r.response
    /\ collections_data' = r.data
    /\ old_file' = collections_file
    /\ wrote' = r.wrote
    /\ ret' = r.ret
    /\ collections_file' = r.file
    /\ overlay_files' = r.files

NoSync(files, r) == ResultOf(r, collections_file, files, NoResponse, EmptyData, FALSE)

\* a caller runs sync_anime_episode_collections(config, force_update)
SyncAnimeEpisodeCollections(Configs, Resps, Fails) ==
    \E config \in Configs, force \in BOOLEAN :
        \E r \in sync_anime_episode_collections(collections_file, overlay_files,
                                                 config, force, Resps, Fails) :
            /\ Finish("sync", force, r)
            /\ UNCHANGED <<poster_file, font_file, font_path>>

\* update_anime_episode_collections(config)
UpdateAnimeEpisodeCollections(Configs, Resps, Fails) ==
    \E config \in Configs :
        \E r \in sync_anime_episode_collections(collections_file, overlay_files,
                                                 config, TRUE, Resps, Fails) :
            /\ Finish("update", TRUE, r)
            /\ UNCHANGED <<poster_file, font_file, font_path>>

\* a caller runs create_anime_overlay_files(config)
CreateAnimeOverlayFiles(Configs, Fails) ==
    \E config \in Configs :
        \E o \in create_anime_overlay_files(overlay_files, config, Fails) :
            /\ Finish("create", FALSE, NoSync(o.files, o.ret))
            /\ UNCHANGED <<poster_file, font_file, font_path>>

\* setup_collection_posters: the poster is at its destination afterwards when
\* it was copied (the bundled file exists, directory and copy succeed)
setup_collection_posters(poster, copied) == IF copied THEN TRUE ELSE poster

\* setup_fonts: [file, path]; the font path is written back into the
\* configuration when the font was copied and services.tv_status_tracker exists
setup_fonts(font, path, config, copied) ==
    IF copied
    THEN [file |-> TRUE, path |-> IF config.tracker THEN "set" ELSE path]
    ELSE [file |-> font, path |-> path]

\* whether the copies of one setup_assets call succeed: the bundled files are
\* both in the image and the destination volume is writable, or not
Copies == {[poster |-> b, font |-> b] : b \in BOOLEAN}

\* The anime part of setup_assets: nothing when the service is not enabled;
\* else update_anime_episode_collections and then create_anime_overlay_files,
\* the results of both only printed.
setup_anime(file, files, config, Resps, Fails) ==
    IF ~config.enabled
    THEN {ResultOf("true", file, files, NoResponse, EmptyData, FALSE)}
    ELSE UNION {IF r.ret = "raised" THEN {r}
                ELSE {ResultOf("true", r.file, o.files, r.response, r.data, r.wrote) :
                        o \in create_anime_overlay_files(r.files, config, Fails)} :
                r \in sync_anime_episode_collections(file, files, config, TRUE, Resps, Fails)}

\* setup_assets(config)
SetupAssets(Configs, Resps, Fails) ==
    \E config \in Configs :
        \E copied \in Copies :
        \E r \in setup_anime(collections_file, overlay_files, config, Resps, Fails) :
            /\ Finish("setup", config.enabled, r)
            /\ poster_file' = setup_collection_posters(poster_file, copied.poster)
            /\ font_file' = setup_fonts(font_file, font_path, config, copied.font).file
            /\ font_path' = setup_fonts(font_file, font_path, config, copied.font).path

\* the user replaces, damages or deletes the collections file
EditCollectionsFile ==
    \E file \in UserFiles :
        /\ collections_file' = file
        /\ Finish("edit", FALSE, ResultOf("none", file, overlay_files, NoResponse,
                                          EmptyData, FALSE))
        /\ UNCHANGED <<poster_file, font_file, font_path>>

\* the user puts an overlay file of their own where none is
PlaceOverlayFile ==
    \E f \in Overlays :
        /\ ~exists(overlay_files[f])
        /\ Finish("place", FALSE,
                  NoSync([overlay_files EXCEPT ![f] = ForeignOverlay], "none"))
        /\ UNCHANGED <<poster_file, font_file, font_path>>

Init ==
    /\ collections_file = Absent
    /\ overlay_files = [f \in Overlays |-> NoOverlay]
    /\ poster_file = FALSE
    /\ font_file = FALSE
    /\ font_path = "unset"
    /\ op = "start"
    /\ force_update = FALSE
    /\ response = NoResponse
    /\ collections_data = EmptyData
    /\ old_file = Absent
    /\ wrote = FALSE
    /\ ret = "none"

\* The synchronisation under the default overlay settings.
Next ==
    \/ SyncAnimeEpisodeCollections(SyncConfigs, Responses, NoFailures)
    \/ UpdateAnimeEpisodeCollections(SyncConfigs, Responses, NoFailures)
    \/ EditCollectionsFile

Spec == Init /\ [][Next]_vars

\* All four operations, with overlay settings that change between calls,
\* overlay files of the user's and failing overlay writes.
NextOverlays ==
    \/ SyncAnimeEpisodeCollections(AllConfigs, FewResponses, OverlayFailures)
    \/ UpdateAnimeEpisodeCollections(AllConfigs, FewResponses, OverlayFailures)
    \/ CreateAnimeOverlayFiles(AllConfigs, OverlayFailures)
    \/ SetupAssets(AllConfigs, FewResponses, OverlayFailures)
    \/ PlaceOverlayFile

SpecOverlays == Init /\ [][NextOverlays]_vars

-----------------------------------------------------------------------------
(* The classifier on its own, over many list names *)

NameOnly(name) == RemoteList("str", name, "missing", <<>>)

\* list records the classifier is run on
ClassifyLists ==
    { NFiller, BManga, NullName, NotADict,
      RemoteList("missing", <<>>, "slug", <<"n", "f">>),
      RemoteList("str", <<"N", "_", "o", "v", "a">>, "null", <<>>),
      RemoteList("str", <<"N", "a", "r", "u", "t", "o">>, "null", <<>>),
      RemoteList("str", <<"B", "_", "f", "i", "l", "l", "e", "r">>, "slug", <<"n", "f">>),
      RemoteList("str", <<"N", "_", "M", "a", "n", "g", "a", " ", "C", "a", "n", "o", "n">>,
                 "noslug", <<>>),
      NameOnly(<<"N", "_", "f", "i", "l", "l", "e", "r">>),
      NameOnly(<<"N", "_", "F", "I", "L", "L", "E", "R">>),
      NameOnly(<<"N", "_", "m", "a", "n", "g", "a", " ", "c", "a", "n", "o", "n">>),
      NameOnly(<<"N", "_", "a", "n", "i", "m", "e", "-", "c", "a", "n", "o", "n">>),
      NameOnly(<<"N", "_", "A", "N", "I", "M", "E", " ", "C", "A", "N", "O", "N">>),
      NameOnly(<<"N", "_", "m", "i", "x", "e", "d", "-", "c", "a", "n", "o", "n", "-",
                 "f", "i", "l", "l", "e", "r">>),
      NameOnly(<<"N", "_", "M", "i", "x", "e", "d", " ", "C", "a", "n", "o", "n", "/",
                 "F", "i", "l", "l", "e", "r">>),
      NameOnly(<<"N", "a", "r", "u", "t", "o">>),
      NameOnly(<<"f", "i", "l", "l", "e", "r">>),
      NameOnly(<<>>),
      NameOnly(<<"N", "_">>),
      NameOnly(<<"_", "f", "i", "l", "l", "e", "r">>),
      NameOnly(<<"N", "_", "o", "v", "a">>),
      NameOnly(<<"N", "_", "f", "i", "l", "l", "e", "r", "s">>),
      NameOnly(<<"N", "_", "f", "i", "l", "l", "e", "r", "_">>),
      NameOnly(<<"N", "_", "S", "2", "_", "f", "i", "l", "l", "e", "r">>),
      NameOnly(<<"f", "i", "l", "l", "e", "r", "_", "N">>),
      NameOnly(<<"N", "_", "m", "a", "n", "g", "a", "_", "c", "a", "n", "o", "n">>),
      NameOnly(<<"N", "_", "m", "i", "x", "e", "d", " ", "c", "a", "n", "o", "n", "-",
                 "f", "i", "l", "l", "e", "r">>) }

InitClassify ==
    /\ collections_file = Absent
    /\ overlay_files = [f \in Overlays |-> NoOverlay]
    /\ poster_file = FALSE
    /\ font_file = FALSE
    /\ font_path = "unset"
    /\ op = "start"
    /\ force_update = FALSE
    /\ response \in {ResponseOf("ok", l) : l \in SeqsUpTo(ClassifyLists, MaxLists)}
    /\ collections_data = EmptyData
    /\ old_file = Absent
    /\ wrote = FALSE
    /\ ret = "none"

\* the loop over trakt_lists, run on the decoded response
RunClassifier ==
    /\ op = "start"
    /\ op' = "classify"
    /\ collections_data' = classify(response.lists).data
    /\ ret' = IF classify(response.lists).raised THEN "raised" ELSE "none"
    /\ UNCHANGED <<collections_file, overlay_files, poster_file, font_file, font_path,
                   force_update, response, old_file, wrote>>

SpecClassify == InitClassify /\ [][RunClassifier]_vars

-----------------------------------------------------------------------------
(* Properties *)

\* the last operation was a run of sync_anime_episode_collections
SyncRan == op \in {"sync", "update"}

\* ... that fetched the lists and classified them
Classified == SyncRan /\ response.status = "ok" /\ ~classify(response.lists).raised

\* it rewrote the collections file
Rewrote == SyncRan /\ wrote /\ ret = "true"

NoDuplicates(list) == \A i, j \in 1..Len(list) : list[i] = list[j] => i = j

\* C1: sync_anime_episode_collections never lets an exception reach its
\* caller: whatever the configuration, the remote call and the disk do, it
\* returns a boolean.
SyncNeverRaises == SyncRan => ret \in {"true", "false"}

\* C2: after a call that returns true, forced or not and whatever the file
\* held before, each of the four collections' persisted trakt_list equals, as
\* a set, the URLs of the fetched lists classified into it.
TrueMeansFileMatchesRemote ==
    (op = "sync" /\ ret = "true") =>
        /\ collections_file.kind = "map"
        /\ \A c \in Collections :
              /\ c \in DOMAIN collections_file.entries
              /\ collections_file.entries[c].shape = "dict"
              /\ existing_lists(collections_file.entries[c]) = set_of(collections_data[c])

\* C3: after a call that returns true the collections file holds exactly one
\* entry for each of the four collections and no other entry.
TrueMeansFourCollections ==
    (op = "sync" /\ ret = "true") =>
        /\ collections_file.kind = "map"
        /\ DOMAIN collections_file.entries = Collections
        /\ set_of(collections_file.order) = Collections
        /\ Len(collections_file.order) = Cardinality(Collections)

\* the step is a run with force_update=False that fetches the same remote
\* data as the run before it
SecondRunOnSameData ==
    /\ SyncRan /\ response.status = "ok"
    /\ op' = "sync" /\ ~force_update' /\ response' = response

\* the step writes no file and returns true
WritesNothingReturnsTrue ==
    /\ ret' = "true" /\ ~wrote'
    /\ collections_file' = collections_file
    /\ overlay_files' = overlay_files

\* C4 as stated: after any first run that returned, a second run on the same
\* remote data with force_update=False writes no file and returns true.
IdempotentAfterAnyRun ==
    [][(SecondRunOnSameData /\ ret \in {"true", "false"}) => WritesNothingReturnsTrue]_vars

\* C4 as amended: after a first run that returned true, a second run on the
\* same remote data with force_update=False writes no file and returns true.
IdempotentAfterSuccess ==
    [][(SecondRunOnSameData /\ ret = "true") => WritesNothingReturnsTrue]_vars

\* a run with force_update=False left alone the file that a run on the same
\* remote data had written
IdempotentWitness ==
    /\ op = "sync" /\ ~force_update /\ ret = "true" /\ ~wrote
    /\ response = ResponseOf("ok", <<NFiller, BManga>>)
    /\ old_file = collections_file
    /\ collections_file = new_collections(MapFile(<<>>, <<>>), collections_data)

\* C5: when the file is rewritten, every collection that had an entry in the
\* old file keeps each field other than trakt_list with its old value, gets
\* no further field, and has trakt_list replaced by the fresh URLs, so that
\* no URL of a list that is gone remains.
SettingsPreserved ==
    Rewrote =>
        \A c \in Collections :
            (old_file.kind = "map" /\ c \in DOMAIN old_file.entries) =>
                LET old == old_file.entries[c].fields
                    new == collections_file.entries[c].fields
                IN  /\ DOMAIN new = DOMAIN old \cup {"trakt_list"}
                    /\ \A k \in DOMAIN old \ {"trakt_list"} : new[k] = old[k]
                    /\ new["trakt_list"] = collections_data[c]
                    /\ \A u \in set_of(new["trakt_list"]) :
                          \E i \in 1..Len(response.lists) :
                              u = list_url(trakt_username, slug_of(response.lists[i]))

\* a rewrite kept sync_mode "append" and the user's own key of Fillers,
\* added no default, and replaced the stale URL by the fetched one
SettingsPreservedWitness ==
    /\ Rewrote
    /\ old_file.kind = "map" /\ "Fillers" \in DOMAIN old_file.entries
    /\ old_file.entries["Fillers"].fields =
          ("trakt_list" :> <<StaleUrl>> @@ "sync_mode" :> "append" @@ "note" :> "mine")
    /\ collections_file.entries["Fillers"].fields =
          ("trakt_list" :> <<list_url(trakt_username, <<"n", "f">>)>>
           @@ "sync_mode" :> "append" @@ "note" :> "mine")

\* C6: an overlay file that exists is never changed: not by any of the four
\* operations, and not when the overlay settings change between calls.
OverlaysWriteOnce ==
    [][\A f \in Overlays : exists(overlay_files[f]) => overlay_files'[f] = overlay_files[f]]_vars

\* setup_assets ran next to a file of the user's and two files written under
\* different overlay settings
OverlaysWriteOnceWitness ==
    /\ op = "setup"
    /\ overlay_files["fillers.yml"].kind = "foreign"
    /\ overlay_files["manga_canon.yml"].kind = "yaml"
    /\ overlay_files["mixed.yml"].kind = "yaml"
    /\ overlay_files["manga_canon.yml"].overlay["font_size"]
          # overlay_files["mixed.yml"].overlay["font_size"]

\* C7: a URL that two fetched lists of one collection share appears once in
\* the classified result and once in the trakt_list written to the file.
NoDoubleCount ==
    /\ Classified => \A c \in Collections : NoDuplicates(collections_data[c])
    /\ Rewrote => \A c \in Collections :
                     NoDuplicates(collections_file.entries[c].fields["trakt_list"])

\* the synonym table
Synonyms ==
    { [token |-> filler, collection |-> "Fillers"],
      [token |-> manga_canon_hyphen, collection |-> "Manga Canon"],
      [token |-> manga_canon_space, collection |-> "Manga Canon"],
      [token |-> anime_canon_hyphen, collection |-> "Anime Canon"],
      [token |-> anime_canon_space, collection |-> "Anime Canon"],
      [token |-> mixed_hyphen, collection |-> "Mixed Canon/Filler"],
      [token |-> mixed_slash, collection |-> "Mixed Canon/Filler"] }

SameLetter(x, y) ==
    x = y \/ \E i \in 1..Len(UpperCase) : {x, y} = {UpperCase[i], LowerCase[i]}

SameIgnoringCase(a, b) ==
    Len(a) = Len(b) /\ \A i \in 1..Len(a) : SameLetter(a[i], b[i])

\* the collections whose synonym the text after the first underscore of the
\* name is, case ignored; none for a name without underscore
DocumentedCollections(name) ==
    {syn.collection : syn \in
        {y \in Synonyms :
            \E i \in 1..Len(name) :
                /\ name[i] = "_"
                /\ \A j \in 1..(i - 1) : name[j] # "_"
                /\ SameIgnoringCase(SubSeq(name, i + 1, Len(name)), y.token)}}

\* a record with a name (or none, read as '') and ids that is not null
HasName(trakt_list) ==
    trakt_list.shape = "dict" /\ trakt_list.name_kind # "null" /\ trakt_list.ids_kind # "null"

UrlsOf(lists) == [i \in 1..Len(lists) |-> list_url(trakt_username, slug_of(lists[i]))]

\* C8: each list goes to the collection that the synonym table gives for the
\* text after the first underscore of its name, case ignored, and to no
\* other; a name without underscore or with an unrecognized token goes
\* nowhere; no name makes the classifier raise.
ClassifiedAsDocumented ==
    (op = "classify" /\ \A i \in 1..Len(response.lists) : HasName(response.lists[i])) =>
        /\ ret # "raised"
        /\ \A c \in Collections :
              collections_data[c] =
                  UrlsOf(SelectSeq(response.lists,
                                   LAMBDA l : c \in DocumentedCollections(name_of(l))))

\* an upper-case synonym was recognized next to a name whose synonym follows
\* a second underscore, which went nowhere
ClassifiedAsDocumentedWitness ==
    /\ op = "classify"
    /\ response.lists =
          <<NameOnly(<<"N", "_", "S", "2", "_", "f", "i", "l", "l", "e", "r">>),
            NameOnly(<<"N", "_", "A", "N", "I", "M", "E", " ", "C", "A", "N", "O", "N">>)>>
    /\ Len(collections_data["Anime Canon"]) = 1
    /\ collections_data["Fillers"] = <<>>

\* C9: with force_update=False the file is rewritten exactly when a
\* collection that has an entry in the existing file, and is one of the
\* four, has a trakt_list there that differs as a set from the fresh one;
\* when nothing is written the call returns true.
WritesIffKnownCollectionDiffers ==
    (op = "sync" /\ ~force_update /\ Classified) =>
        /\ wrote <=>
              \E c \in Collections :
                  /\ old_file.kind = "map"
                  /\ c \in DOMAIN old_file.entries
                  /\ existing_lists(old_file.entries[c]) # set_of(collections_data[c])
        /\ ~wrote => ret = "true"

\* the overlay file of each collection
OverlayFileOf ==
    [c \in Collections |->
        CASE c = "Fillers" -> "fillers.yml"
          [] c = "Manga Canon" -> "manga_canon.yml"
          [] c = "Anime Canon" -> "anime_canon.yml"
          [] OTHER -> "mixed.yml"]

\* C10: the episode_label a freshly created overlay file filters on equals
\* the item_label that the collection gets when it has no prior entry.
LabelsAgree ==
    Rewrote =>
        \A c \in Collections :
            (/\ c \notin DOMAIN old_file.entries
             /\ overlay_files[OverlayFileOf[c]].kind = "yaml") =>
                overlay_files[OverlayFileOf[c]].episode_label
                    = collections_file.entries[c].fields["item_label"]

====
